---- MODULE Spec2Model ----
(***************************************************************************)
(* A model of the roslibjs connection core: the Ros connection manager     *)
(* (core/Ros.js), the socket adapter that feeds it, the Service            *)
(* request/response channel (core/Service.js), the Topic publish/subscribe *)
(* channel (core/Topic.js) and the action server                           *)
(* (actionlib/SimpleActionServer.js).  Variables named "history" observe   *)
(* the program and are never read by it.                                   *)
(*                                                                         *)
(* JavaScript values are encoded as strings: "undefined" is undefined,     *)
(* "true"/"false" are the booleans, "" is the empty string.  Plain         *)
(* payload objects ({}-literals) are sets of <<property, value>> pairs.    *)
(***************************************************************************)
EXTENDS Integers, Sequences, FiniteSets, TLC

\* ---- bounds of the model ----
MaxCalls == 3      \* callOnConnection invocations in one behaviour
MaxServiceCalls == 2  \* callService invocations that reach the id counter
MaxFrames == 2     \* inbound frames delivered by the transport
MaxOpens == 2      \* transport open signals (connect, close, reconnect)
MaxAppListeners == 1  \* application listeners registered on 'connection'
MaxSubscribers == 3   \* Topic.subscribe invocations in one behaviour
MaxGoals == 2         \* Goal objects created on one ActionClient
MaxGoalTimers == 1    \* pending send(timeout) timers of one ActionClient
MaxUpdates == 2       \* re-aggregations of one TFClient
MaxFields == 2        \* fields of the typedef handed to decodeTypeDefs
MaxAdvertises == 2    \* successful advertise calls on one Service instance

\* ---- the JavaScript values the model uses ----
Undefined == "undefined"
JsTrue == "true"
JsFalse == "false"
EmptyObject == {}

Services == {1, 2}                 \* two Service instances sharing one Ros
TFService == 3                     \* the Service instance a TFClient creates
ServiceName == "/add"              \* the name both instances are given
Request == {<<"a", "1">>}          \* the ServiceRequest every call carries
RequestIds == {Undefined, "", "service_request:1"}

VARIABLES
  socket,          \* Ros.socket: "null" or the readyState of the socket object
  isConnected,     \* Ros.isConnected
  idCounter,       \* Ros.idCounter
  listeners,       \* the emitter's registered listeners, in registration order
  regs,            \* number of listener functions registered so far
  name,            \* Service.name, per instance
  serviceType,     \* Service.serviceType, per instance
  isAdvertised,    \* Service.isAdvertised, per instance
  serviceCallback, \* Service._serviceCallback, per instance ("null" or "function")
  wire,            \* history: every frame handed to the transport, in order
  callLog,         \* history: every callOnConnection invocation, in order
  deliveries,      \* history: every firing of a callService listener
  handlerLog,      \* history: every invocation of an advertised handler
  opens,           \* history: number of 'connection' events so far
  inbox,           \* history: every inbound frame, in arrival order
  last,            \* history: the operation of the last step and its pre-state
  subscribers,     \* Topic: the callbacks registered on the topic, in order
  subscribeId,     \* Topic.subscribeId: "null" or the id of the subscription
  subscribed,      \* history: number of Topic.subscribe invocations so far
  currentGoal,     \* SimpleActionServer.currentGoal: Null or a goal message
  nextGoal,        \* SimpleActionServer.nextGoal: Null or a goal message
  statusMessage,   \* SimpleActionServer.statusMessage
  probe,           \* the arguments handed to a pure function and what it returned
  actionClient,    \* the ActionClient, its Goal registry and its timers
  tfClient,        \* the TFClient, its frame entries and its update timer
  transportLibrary \* Ros.transportLibrary

rosVars == <<socket, isConnected, idCounter, listeners, regs, name, serviceType,
             isAdvertised, serviceCallback, wire, callLog, deliveries, handlerLog,
             opens, inbox, transportLibrary>>
topicVars == <<subscribers, subscribeId, subscribed>>
serverVars == <<currentGoal, nextGoal, statusMessage>>

vars == <<rosVars, last, topicVars, serverVars, probe, actionClient, tfClient>>

\* The program state as one record, so that a handler and everything it calls
\* synchronously compose as functions from state to state.
Cur ==
  [socket |-> socket, isConnected |-> isConnected, idCounter |-> idCounter,
   listeners |-> listeners, regs |-> regs, name |-> name, serviceType |-> serviceType,
   isAdvertised |-> isAdvertised,
   serviceCallback |-> serviceCallback, wire |-> wire, callLog |-> callLog,
   deliveries |-> deliveries, handlerLog |-> handlerLog, opens |-> opens,
   inbox |-> inbox, subscribers |-> subscribers, subscribeId |-> subscribeId,
   subscribed |-> subscribed, transportLibrary |-> transportLibrary]

Snapshot(s) ==
  [idCounter |-> s.idCounter, listeners |-> Len(s.listeners),
   wire |-> Len(s.wire), callLog |-> Len(s.callLog),
   deliveries |-> Len(s.deliveries), handlerLog |-> Len(s.handlerLog)]

Null == [null |-> TRUE]            \* JavaScript null, where an object may stand

\* last is kept for the Service calls, whose early returns leave no other trace.
NoLast == [op |-> "other", svc |-> 0, advertised |-> FALSE, pre |-> <<>>]
ServiceCall(op, svc) ==
  [op |-> op, svc |-> svc, advertised |-> isAdvertised[svc], pre |-> Snapshot(Cur)]

Assign(s, lastOp) ==
  /\ socket' = s.socket
  /\ isConnected' = s.isConnected
  /\ idCounter' = s.idCounter
  /\ listeners' = s.listeners
  /\ regs' = s.regs
  /\ name' = s.name
  /\ serviceType' = s.serviceType
  /\ isAdvertised' = s.isAdvertised
  /\ serviceCallback' = s.serviceCallback
  /\ wire' = s.wire
  /\ callLog' = s.callLog
  /\ deliveries' = s.deliveries
  /\ handlerLog' = s.handlerLog
  /\ opens' = s.opens
  /\ inbox' = s.inbox
  /\ last' = lastOp
  /\ subscribers' = s.subscribers
  /\ subscribeId' = s.subscribeId
  /\ subscribed' = s.subscribed
  /\ transportLibrary' = s.transportLibrary

Commit(s, lastOp) ==
  /\ Assign(s, lastOp)
  /\ UNCHANGED <<serverVars, probe, actionClient, tfClient>>

\* ---- JSON ----
\* JSON.stringify of a message object: properties whose value is undefined are
\* left out of the text.
StringFields == {"op", "id", "service", "type", "level", "result"}
JSONstringify(message) ==
  [f \in {g \in DOMAIN message :
            ~(g \in StringFields /\ message[g] = Undefined)} |-> message[f]]

\* Object.assign(target, source) on payload objects.
ObjectAssign(target, source) ==
  {p \in target : \A q \in source : q[1] # p[1]} \cup source

\* new ServiceResponse(values) / new ServiceRequest(values)
ServiceResponse(values) == ObjectAssign(EmptyObject, values)

\* ---- the event emitter Ros extends ----
\* Every registered function is its own object: lid is its identity.
on(s, key, fn) ==
  [s EXCEPT !.regs = @ + 1,
            !.listeners =
     Append(@, [key |-> key, once |-> FALSE, lid |-> s.regs + 1, fn |-> fn])]

once(s, key, fn) ==
  [s EXCEPT !.regs = @ + 1,
            !.listeners =
     Append(@, [key |-> key, once |-> TRUE, lid |-> s.regs + 1, fn |-> fn])]

\* prependOnceListener puts the listener at the head of the list.
prependOnceListener(s, key, fn) ==
  [s EXCEPT !.regs = @ + 1,
            !.listeners =
     <<[key |-> key, once |-> TRUE, lid |-> s.regs + 1, fn |-> fn]>> \o @]

removeListener(s, lid) ==
  [s EXCEPT !.listeners = SelectSeq(@, LAMBDA l : l.lid # lid)]

listenersOf(s, key) == SelectSeq(s.listeners, LAMBDA l : l.key = key)

\* ---- Ros ----
\* emitter(msg): this.socket.send(msg).  The wire entry also records what the
\* connection looked like at the moment of the hand-off.
emitter(s, messageJson, serial) ==
  [s EXCEPT !.wire =
     Append(@, [json |-> messageJson, serial |-> serial,
                isConnected |-> s.isConnected, epoch |-> s.opens])]

\* Faulty variants of callOnConnection: one that sends without looking at
\* isConnected, one that queues at the head of the listener list, and one
\* whose queued listener is registered with on instead of once.
callOnConnectionNoGuard(s, message) ==
  LET messageJson == JSONstringify(message)
      serial == Len(s.callLog) + 1
      logged == [s EXCEPT !.callLog =
                   Append(@, [json |-> messageJson, queued |-> ~s.isConnected,
                              epoch |-> s.opens])]
  IN emitter(logged, messageJson, serial)

callOnConnectionPrepend(s, message) ==
  LET messageJson == JSONstringify(message)
      serial == Len(s.callLog) + 1
      logged == [s EXCEPT !.callLog =
                   Append(@, [json |-> messageJson, queued |-> ~s.isConnected,
                              epoch |-> s.opens])]
  IN IF ~s.isConnected
     THEN prependOnceListener(logged, "connection",
               [type |-> "emitter", json |-> messageJson, serial |-> serial])
     ELSE emitter(logged, messageJson, serial)

callOnConnectionOn(s, message) ==
  LET messageJson == JSONstringify(message)
      serial == Len(s.callLog) + 1
      logged == [s EXCEPT !.callLog =
                   Append(@, [json |-> messageJson, queued |-> ~s.isConnected,
                              epoch |-> s.opens])]
  IN IF ~s.isConnected
     THEN on(logged, "connection",
             [type |-> "emitter", json |-> messageJson, serial |-> serial])
     ELSE emitter(logged, messageJson, serial)

\* Ros.callOnConnection.  callLog records each call with the branch it took.
callOnConnection(s, message) ==
  LET messageJson == JSONstringify(message)
      serial == Len(s.callLog) + 1
      logged == [s EXCEPT !.callLog =
                   Append(@, [json |-> messageJson, queued |-> ~s.isConnected,
                              epoch |-> s.opens])]
  IN IF ~s.isConnected
     THEN once(logged, "connection",
               [type |-> "emitter", json |-> messageJson, serial |-> serial])
     ELSE emitter(logged, messageJson, serial)

setStatusLevel(s, level, id) ==
  callOnConnection(s, [op |-> "set_level", level |-> level, id |-> id])

\* ---- Service ----
Truthy(v) == v \notin {Undefined, "", JsFalse}

callId(svcName, counter) ==
  "call_service:" \o svcName \o ":" \o ToString(counter)

\* Faulty variant of the listener: a failed response with no failure callback
\* falls through to the success callback.
serviceCallListenerFallThrough(s, l, message) ==
  LET fired ==
        IF message.result # Undefined /\ message.result = JsFalse
           /\ l.fn.failedCallback = "function"
        THEN {"failedCallback"}
        ELSE IF l.fn.callback = "function" THEN {"callback"} ELSE {}
      arg == IF "callback" \in fired THEN ServiceResponse(message.values)
             ELSE message.values
  IN [s EXCEPT !.deliveries =
        Append(@, [lid |-> l.lid, callId |-> l.fn.id, msgId |-> message.id,
                   result |-> message.result, callback |-> l.fn.callback,
                   failedCallback |-> l.fn.failedCallback, fired |-> fired,
                   arg |-> arg, epoch |-> s.opens])]

\* The one-shot listener callService registers under the call's id.
serviceCallListener(s, l, message) ==
  LET fired ==
        IF message.result # Undefined /\ message.result = JsFalse
        THEN IF l.fn.failedCallback = "function" THEN {"failedCallback"} ELSE {}
        ELSE IF l.fn.callback = "function" THEN {"callback"} ELSE {}
      arg == IF "callback" \in fired THEN ServiceResponse(message.values)
             ELSE message.values
  IN [s EXCEPT !.deliveries =
        Append(@, [lid |-> l.lid, callId |-> l.fn.id, msgId |-> message.id,
                   result |-> message.result, callback |-> l.fn.callback,
                   failedCallback |-> l.fn.failedCallback, fired |-> fired,
                   arg |-> arg, epoch |-> s.opens])]

\* Faulty variants of callService: one whose listener is registered with on
\* instead of once, one that does not advance the id counter, and one without
\* the isAdvertised test.
callServiceOn(s, svc, request, callback, failedCallback) ==
  IF s.isAdvertised[svc] THEN s
  ELSE
    LET counted == [s EXCEPT !.idCounter = @ + 1]
        serviceCallId == callId(s.name[svc], counted.idCounter)
        listening ==
          IF Truthy(callback) \/ Truthy(failedCallback)
          THEN on(counted, serviceCallId,
                    [type |-> "serviceCall", id |-> serviceCallId,
                     callback |-> callback, failedCallback |-> failedCallback])
          ELSE counted
        call == [op |-> "call_service", id |-> serviceCallId,
                 service |-> s.name[svc], type |-> s.serviceType[svc],
                 args |-> request]
    IN callOnConnection(listening, call)

callServiceReuseId(s, svc, request, callback, failedCallback) ==
  IF s.isAdvertised[svc] THEN s
  ELSE
    LET counted == s
        serviceCallId == callId(s.name[svc], counted.idCounter)
        listening ==
          IF Truthy(callback) \/ Truthy(failedCallback)
          THEN once(counted, serviceCallId,
                    [type |-> "serviceCall", id |-> serviceCallId,
                     callback |-> callback, failedCallback |-> failedCallback])
          ELSE counted
        call == [op |-> "call_service", id |-> serviceCallId,
                 service |-> s.name[svc], type |-> s.serviceType[svc],
                 args |-> request]
    IN callOnConnection(listening, call)

callServiceNoGuard(s, svc, request, callback, failedCallback) ==
  IF FALSE THEN s
  ELSE
    LET counted == [s EXCEPT !.idCounter = @ + 1]
        serviceCallId == callId(s.name[svc], counted.idCounter)
        listening ==
          IF Truthy(callback) \/ Truthy(failedCallback)
          THEN once(counted, serviceCallId,
                    [type |-> "serviceCall", id |-> serviceCallId,
                     callback |-> callback, failedCallback |-> failedCallback])
          ELSE counted
        call == [op |-> "call_service", id |-> serviceCallId,
                 service |-> s.name[svc], type |-> s.serviceType[svc],
                 args |-> request]
    IN callOnConnection(listening, call)

\* Service.callService
callService(s, svc, request, callback, failedCallback) ==
  IF s.isAdvertised[svc] THEN s
  ELSE
    LET counted == [s EXCEPT !.idCounter = @ + 1]
        serviceCallId == callId(s.name[svc], counted.idCounter)
        listening ==
          IF Truthy(callback) \/ Truthy(failedCallback)
          THEN once(counted, serviceCallId,
                    [type |-> "serviceCall", id |-> serviceCallId,
                     callback |-> callback, failedCallback |-> failedCallback])
          ELSE counted
        call == [op |-> "call_service", id |-> serviceCallId,
                 service |-> s.name[svc], type |-> s.serviceType[svc],
                 args |-> request]
    IN callOnConnection(listening, call)

\* outcome is what the application's handler does with
\* (request.args, response): the value it returns and what it writes.
_serviceResponse(s, svc, rosbridgeRequest, outcome) ==
  LET response == ObjectAssign(EmptyObject, outcome.written)
      success == outcome.success
      call == [op |-> "service_response", service |-> s.name[svc],
               values |-> ServiceResponse(response), result |-> success]
      withId == IF Truthy(rosbridgeRequest.id)
                THEN [f \in DOMAIN call \cup {"id"} |->
                        IF f = "id" THEN rosbridgeRequest.id ELSE call[f]]
                ELSE call
      logged == [s EXCEPT !.handlerLog =
                   Append(@, [svc |-> svc, advertised |-> s.isAdvertised[svc],
                              reqId |-> rosbridgeRequest.id,
                              success |-> success, written |-> outcome.written,
                              serial |-> Len(s.callLog) + 1])]
  IN callOnConnection(logged, withId)

advertise(s, svc, callback) ==
  IF s.isAdvertised[svc] \/ callback # "function" THEN s
  ELSE
    LET set == [s EXCEPT !.serviceCallback[svc] = callback]
        routed == on(set, s.name[svc], [type |-> "serviceResponse", svc |-> svc])
        sent == callOnConnection(routed,
                  [op |-> "advertise_service",
                   type |-> s.serviceType[svc], service |-> s.name[svc]])
    IN [sent EXCEPT !.isAdvertised[svc] = TRUE]

unadvertise(s, svc) ==
  IF ~s.isAdvertised[svc] THEN s
  ELSE
    LET sent == callOnConnection(s,
                  [op |-> "unadvertise_service", service |-> s.name[svc]])
    IN [sent EXCEPT !.isAdvertised[svc] = FALSE]

\* ---- emit ----
\* What a registered function does when the emitter calls it.
invoke(s, l, arg, outcome) ==
  CASE l.fn.type = "emitter" -> emitter(s, l.fn.json, l.fn.serial)
    [] l.fn.type = "application" -> setStatusLevel(s, "info", Undefined)
    [] l.fn.type = "serviceCall" -> serviceCallListener(s, l, arg)
    [] l.fn.type = "serviceResponse" ->
         _serviceResponse(s, l.fn.svc, arg, outcome)
    [] l.fn.type = "topicMessage" -> s

\* emit(key, arg): the listeners registered under key when emit starts are
\* called in registration order; a once-listener is removed before its call.
RECURSIVE runListeners(_, _, _, _)
runListeners(s, snapshot, arg, outcome) ==
  IF snapshot = <<>> THEN s
  ELSE LET l == Head(snapshot)
           removed == IF l.once THEN removeListener(s, l.lid) ELSE s
       IN runListeners(invoke(removed, l, arg, outcome), Tail(snapshot),
                       arg, outcome)

emit(s, key, arg, outcome) ==
  runListeners(s, listenersOf(s, key), arg, outcome)

\* ---- SocketAdapter ----
\* What a handler can do: succeed and fill in the response, or fail and leave
\* it empty.
Outcomes == {[success |-> JsTrue, written |-> {<<"sum", "3">>}],
             [success |-> JsFalse, written |-> EmptyObject]}
NoOutcome == [success |-> JsTrue, written |-> EmptyObject]

onopen(s) ==
  LET connected == [s EXCEPT !.isConnected = TRUE, !.opens = @ + 1]
  IN emit(connected, "connection", Undefined, NoOutcome)

onclose(s) ==
  LET disconnected == [s EXCEPT !.isConnected = FALSE]
  IN emit(disconnected, "close", Undefined, NoOutcome)

\* Transport errors are re-emitted as 'error' events.
onerror(s) == emit(s, "error", Undefined, NoOutcome)

handleMessage(s, message, outcome) ==
  CASE message.op = "service_response" -> emit(s, message.id, message, outcome)
    [] message.op = "call_service" -> emit(s, message.service, message, outcome)
    [] OTHER -> s

onmessage(s, message, outcome) ==
  handleMessage([s EXCEPT !.inbox = Append(@, message)], message, outcome)

\* ---- the operations as steps ----
\* ---- Topic ----
TopicName == "/chatter"
TopicCallbacks == {"f", "g"}       \* the functions the application subscribes

\* Topic.subscribe(callback): the callback is registered; the first one for
\* the name makes the topic listen on the connection and send 'subscribe'.
subscribeAlways(s, callback) ==
  LET s1 == [s EXCEPT !.subscribers = Append(@, callback), !.subscribed = @ + 1]
      s2 == on(s1, TopicName, [type |-> "topicMessage"])
      id == "subscribe:" \o TopicName \o ":" \o ToString(s2.idCounter + 1)
  IN  callOnConnection([s2 EXCEPT !.idCounter = @ + 1, !.subscribeId = id],
                       [op |-> "subscribe", id |-> id, topic |-> TopicName])

subscribe(s, callback) ==
  LET s1 == [s EXCEPT !.subscribers = Append(@, callback), !.subscribed = @ + 1]
      s2 == on(s1, TopicName, [type |-> "topicMessage"])
      id == "subscribe:" \o TopicName \o ":" \o ToString(s2.idCounter + 1)
  IN  IF s.subscribeId # "null"
      THEN s1
      ELSE callOnConnection([s2 EXCEPT !.idCounter = @ + 1, !.subscribeId = id],
                            [op |-> "subscribe", id |-> id, topic |-> TopicName])

\* The callbacks left when one registration of callback is taken away;
\* Undefined takes all of them away.
RECURSIVE off(_, _)
off(callbacks, callback) ==
  IF callback = Undefined \/ callbacks = <<>>
  THEN <<>>
  ELSE IF callbacks[Len(callbacks)] = callback
       THEN SubSeq(callbacks, 1, Len(callbacks) - 1)
       ELSE Append(off(SubSeq(callbacks, 1, Len(callbacks) - 1), callback),
                   callbacks[Len(callbacks)])

\* Topic.unsubscribe(callback): the callback is removed; reaching zero
\* callbacks on a subscribed topic stops listening and sends 'unsubscribe'.
unsubscribe(s, callback) ==
  LET s1 == [s EXCEPT !.subscribers = off(@, callback)]
      mine == SelectSeq(s1.listeners, LAMBDA l : l.fn.type = "topicMessage")
      s2 == IF mine = <<>> THEN s1 ELSE removeListener(s1, mine[1].lid)
  IN  IF s1.subscribers # <<>> \/ s1.subscribeId = "null"
      THEN s1
      ELSE callOnConnection([s2 EXCEPT !.subscribeId = "null"],
                            [op |-> "unsubscribe", id |-> s1.subscribeId,
                             topic |-> TopicName])

\* ---- SimpleActionServer ----
GoalIds == {"A", "B"}
CancelIds == {"", "A", "B", "C"}
Stamps ==
  {[secs |-> 0, nsecs |-> 0], [secs |-> 0, nsecs |-> 5], [secs |-> 1, nsecs |-> 0]}
Clock == {[secs |-> 2, nsecs |-> 0], [secs |-> 2, nsecs |-> 500000000]}
Result == {<<"sequence", "1">>}

\* The frames of the goal topic and of the cancel topic.
GoalMessages ==
  {[goal_id |-> [id |-> i, stamp |-> t], goal |-> {<<"order", i>>}] :
     i \in GoalIds, t \in Stamps}
CancelMessages == {[id |-> i, stamp |-> t] : i \in CancelIds, t \in Stamps}

\* The server's state as one record; events, published and fault observe one
\* handler run: the events it raised, the messages it handed to its
\* publishers, and whether it ended in a TypeError.
Srv ==
  [currentGoal |-> currentGoal, nextGoal |-> nextGoal,
   statusMessage |-> statusMessage, events |-> <<>>, published |-> <<>>,
   fault |-> FALSE]

\* this.emit(type, arg) on the server's own emitter.
serverEmit(s, type, arg) ==
  [s EXCEPT !.events = Append(@, [type |-> type, arg |-> arg])]

\* publisher.publish(message) on one of the server's topics.
publish(s, topic, message) ==
  [s EXCEPT !.published = Append(@, [topic |-> topic, msg |-> message])]

goalListenerReplace(s, goalMessage) ==
  serverEmit([s EXCEPT !.statusMessage.status_list =
                         <<[goal_id |-> goalMessage.goal_id, status |-> 1]>>,
                       !.currentGoal = goalMessage],
             "goal", goalMessage.goal)

\* The callback subscribed to the goal topic.
goalListener(s, goalMessage) ==
  IF s.currentGoal # Null
  THEN serverEmit([s EXCEPT !.nextGoal = goalMessage], "cancel", Undefined)
  ELSE serverEmit([s EXCEPT !.statusMessage.status_list =
                              <<[goal_id |-> goalMessage.goal_id, status |-> 1]>>,
                            !.currentGoal = goalMessage],
                  "goal", goalMessage.goal)

isEarlierByNsecs(t1, t2) ==
  IF t1.secs > t2.secs THEN FALSE
  ELSE t1.nsecs < t2.nsecs

isEarlierOrEqual(t1, t2) ==
  IF t1.secs > t2.secs THEN FALSE
  ELSE IF t1.secs < t2.secs THEN TRUE
  ELSE t1.nsecs <= t2.nsecs

\* helper function to determine ordering of timestamps: returns t1 < t2
isEarlier(t1, t2) ==
  IF t1.secs > t2.secs THEN FALSE
  ELSE IF t1.secs < t2.secs THEN TRUE
  ELSE IF t1.nsecs < t2.nsecs THEN TRUE
  ELSE FALSE

cancelListenerKeepNext(s, cancelMessage) ==
  IF s.currentGoal # Null THEN serverEmit(s, "cancel", Undefined) ELSE s

\* The callback subscribed to the cancel topic.  The first test reads
\* stamp.secs twice and stamp.nsecs never.
cancelListener(s, cancelMessage) ==
  IF /\ cancelMessage.stamp.secs = 0
     /\ cancelMessage.stamp.secs = 0
     /\ cancelMessage.id = ""
  THEN LET s1 == [s EXCEPT !.nextGoal = Null]
       IN  IF s1.currentGoal # Null
           THEN serverEmit(s1, "cancel", Undefined)
           ELSE s1
  ELSE LET s1 == IF /\ s.currentGoal # Null
                    /\ cancelMessage.id = s.currentGoal.goal_id.id
                 THEN serverEmit(s, "cancel", Undefined)
                 ELSE IF /\ s.nextGoal # Null
                         /\ cancelMessage.id = s.nextGoal.goal_id.id
                      THEN [s EXCEPT !.nextGoal = Null]
                      ELSE s
           s2 == IF /\ s1.nextGoal # Null
                    /\ isEarlier(s1.nextGoal.goal_id.stamp, cancelMessage.stamp)
                 THEN [s1 EXCEPT !.nextGoal = Null]
                 ELSE s1
       IN  IF /\ s2.currentGoal # Null
              /\ isEarlier(s2.currentGoal.goal_id.stamp, cancelMessage.stamp)
           THEN serverEmit(s2, "cancel", Undefined)
           ELSE s2

\* The status timer's callback: stamps the status message and publishes it.
statusInterval(s, currentTime) ==
  LET s1 == [s EXCEPT !.statusMessage.header.stamp = currentTime]
  IN  publish(s1, "status", s1.statusMessage)

\* Reading this.currentGoal.goal_id while currentGoal is null is a TypeError:
\* the operation ends there.
TypeError(s) == [s EXCEPT !.fault = TRUE]

\* The common tail of the terminal operations: the staged goal, if any,
\* becomes the current one and is announced.
promote(s) ==
  IF s.nextGoal # Null
  THEN serverEmit([s EXCEPT !.currentGoal = s.nextGoal, !.nextGoal = Null],
                  "goal", s.nextGoal.goal)
  ELSE [s EXCEPT !.currentGoal = Null]

setSucceeded(s, result2) ==
  IF s.currentGoal = Null
  THEN TypeError(s)
  ELSE LET resultMessage ==
             [status |-> [goal_id |-> s.currentGoal.goal_id, status |-> 3],
              result |-> result2]
           s1 == publish(s, "result", resultMessage)
       IN  promote([s1 EXCEPT !.statusMessage.status_list = <<>>])

setAbortedIdle(s, result2) ==
  IF s.currentGoal = Null
  THEN TypeError(s)
  ELSE LET resultMessage ==
             [status |-> [goal_id |-> s.currentGoal.goal_id, status |-> 4],
              result |-> result2]
           s1 == publish(s, "result", resultMessage)
       IN  [s1 EXCEPT !.statusMessage.status_list = <<>>, !.currentGoal = Null]

setAborted(s, result2) ==
  IF s.currentGoal = Null
  THEN TypeError(s)
  ELSE LET resultMessage ==
             [status |-> [goal_id |-> s.currentGoal.goal_id, status |-> 4],
              result |-> result2]
           s1 == publish(s, "result", resultMessage)
       IN  promote([s1 EXCEPT !.statusMessage.status_list = <<>>])

sendFeedback(s, feedback2) ==
  IF s.currentGoal = Null
  THEN TypeError(s)
  ELSE publish(s, "feedback",
               [status |-> [goal_id |-> s.currentGoal.goal_id, status |-> 1],
                feedback |-> feedback2])

setPreemptedNoResult(s) ==
  LET s1 == [s EXCEPT !.statusMessage.status_list = <<>>]
  IN  IF s1.currentGoal = Null THEN TypeError(s1) ELSE promote(s1)

setPreempted(s) ==
  LET s1 == [s EXCEPT !.statusMessage.status_list = <<>>]
  IN  IF s1.currentGoal = Null
      THEN TypeError(s1)
      ELSE promote(publish(s1, "result",
                           [status |-> [goal_id |-> s1.currentGoal.goal_id,
                                        status |-> 2]]))

\* ---- ActionClient and Goal ----
\* new ActionClient(options): the three listener topics are subscribed unless
\* omitted, and the timeout timer is started if a timeout is given.
\* statusFrames and timeouts are history: the status frames delivered and the
\* client-level 'timeout' events raised so far.
ActionClient(options) ==
  [timeout |-> options.timeout, omitStatus |-> options.omitStatus,
   omitFeedback |-> options.omitFeedback, omitResult |-> options.omitResult,
   goals |-> <<>>, receivedStatus |-> FALSE,
   subscribed |-> [status |-> ~options.omitStatus,
                   feedback |-> ~options.omitFeedback,
                   result |-> ~options.omitResult],
   timer |-> IF Truthy(options.timeout) THEN "armed" ELSE "none",
   statusFrames |-> 0, timeouts |-> 0]

Options ==
  [timeout : {Undefined, "100"}, omitStatus : BOOLEAN, omitFeedback : {FALSE},
   omitResult : {FALSE}]
DefaultOptions ==
  [timeout |-> Undefined, omitStatus |-> FALSE, omitFeedback |-> FALSE,
   omitResult |-> FALSE]

\* The client's state as one record, with the observations of one handler run.
AC == [events |-> <<>>, published |-> <<>>, fault |-> FALSE] @@ actionClient

\* The goal ids: 'goal_' + Math.random() + '_' + date.getTime(), taken to be
\* different for every Goal; the registry is indexed by creation order.
goalID(n) == "goal_" \o ToString(n)
GoalIndex(s, id) == {n \in 1..Len(s.goals) : s.goals[n].goalID = id}

\* Ids a frame can carry: those of the registry, one that is in no registry,
\* and one that names a property every object inherits.
FrameIds == {goalID(n) : n \in 1..MaxGoals} \cup {"goal_x", "constructor"}

\* this.goals[id]: the Goal, a function inherited from Object.prototype, or
\* undefined.
Lookup(s, id) ==
  IF GoalIndex(s, id) # {} THEN "goal"
  ELSE IF id = "constructor" THEN "function"
  ELSE Undefined

\* goal.emit(type, arg): the listeners the Goal constructor registered.
goalEmit(s, n, type, arg) ==
  LET s1 == [s EXCEPT !.events = Append(@, [goal |-> n, type |-> type,
                                             arg |-> arg])]
  IN  CASE type = "status" -> [s1 EXCEPT !.goals[n].status = arg]
        [] type = "result" -> [s1 EXCEPT !.goals[n].isFinished = TRUE,
                                         !.goals[n].result = arg,
                                         !.goals[n].resulted = TRUE]
        [] type = "feedback" -> [s1 EXCEPT !.goals[n].feedback = arg]
        [] OTHER -> s1

\* new Goal({actionClient, goalMessage}).  resulted is history: a 'result'
\* event was delivered; timers counts the pending timers of send.
Goal(s, goalMessage) ==
  LET id == goalID(Len(s.goals) + 1)
  IN  [s EXCEPT !.goals = Append(@,
         [goalID |-> id, isFinished |-> FALSE, status |-> Undefined,
          result |-> Undefined, feedback |-> Undefined,
          goalMessage |-> [goal_id |-> [stamp |-> [secs |-> 0, nsecs |-> 0],
                                        id |-> id],
                           goal |-> goalMessage],
          resulted |-> FALSE, timers |-> 0])]

\* The status callback is a function expression, not an arrow function: its
\* this is not the ActionClient, so this.goals is not the registry and the
\* first entry of the list ends the callback in a TypeError.
statusListener(s, statusArray) ==
  LET s1 == [s EXCEPT !.receivedStatus = TRUE, !.statusFrames = 1]
  IN  IF statusArray.status_list = <<>> THEN s1 ELSE TypeError(s1)

dispatchPayloadOnly(s, message, type) ==
  LET id == message.status.goal_id.id
      n == CHOOSE n \in GoalIndex(s, id) : TRUE
  IN  IF Lookup(s, id) = "goal" THEN goalEmit(s, n, type, message[type])
      ELSE IF Lookup(s, id) = "function" THEN TypeError(s)
      ELSE s

\* The feedback and result callbacks: status first, then the payload.
dispatch(s, message, type) ==
  LET id == message.status.goal_id.id
      n == CHOOSE n \in GoalIndex(s, id) : TRUE
  IN  IF Lookup(s, id) = "goal"
      THEN goalEmit(goalEmit(s, n, "status", message.status),
                    n, type, message[type])
      ELSE IF Lookup(s, id) = "function" THEN TypeError(s)
      ELSE s

feedbackListener(s, feedbackMessage) == dispatch(s, feedbackMessage, "feedback")

resultListener(s, resultMessage) == dispatch(s, resultMessage, "result")

clientTimeoutAlways(s) ==
  [s EXCEPT !.timer = "fired", !.timeouts = @ + 1,
            !.events = Append(@, [goal |-> 0, type |-> "timeout",
                                  arg |-> Undefined])]

\* The client's timeout timer expires.
clientTimeout(s) ==
  LET s1 == [s EXCEPT !.timer = "fired"]
  IN  IF ~s1.receivedStatus
      THEN [s1 EXCEPT !.events = Append(@, [goal |-> 0, type |-> "timeout",
                                            arg |-> Undefined]),
                      !.timeouts = @ + 1]
      ELSE s1

\* ActionClient.cancel
clientCancel(s) == publish(s, "cancel", EmptyObject)

\* ActionClient.dispose
dispose(s) ==
  [s EXCEPT !.subscribed = [status |-> FALSE, feedback |-> FALSE,
                            result |-> FALSE]]

sendNoTimer(s, n, timeout) == publish(s, "goal", s.goals[n].goalMessage)

\* Goal.send(timeout)
send(s, n, timeout) ==
  LET s1 == publish(s, "goal", s.goals[n].goalMessage)
  IN  IF Truthy(timeout) THEN [s1 EXCEPT !.goals[n].timers = @ + 1] ELSE s1

goalTimeoutAlways(s, n) ==
  goalEmit([s EXCEPT !.goals[n].timers = @ - 1], n, "timeout", Undefined)

\* The timer of Goal.send expires.
goalTimeout(s, n) ==
  LET s1 == [s EXCEPT !.goals[n].timers = @ - 1]
  IN  IF ~s1.goals[n].isFinished
      THEN goalEmit(s1, n, "timeout", Undefined)
      ELSE s1

goalCancelFinishes(s, n) ==
  publish([s EXCEPT !.goals[n].isFinished = TRUE], "cancel",
          {<<"id", s.goals[n].goalID>>})

\* Goal.cancel
goalCancel(s, n) == publish(s, "cancel", {<<"id", s.goals[n].goalID>>})

\* ---- TFClient ----
\* Frame ids are sequences of characters.
FrameKeys == {<<"a">>, <<"b">>}
FrameIDs == FrameKeys \cup {<<"/", "a">>}
TFCallbacks == {"f", "g"}

\* new TFClient(options): its ActionClient omits status and result.
TFOptions ==
  [timeout |-> Undefined, omitStatus |-> TRUE, omitFeedback |-> FALSE,
   omitResult |-> TRUE]
TFClient(groovyCompatibility) ==
  [groovyCompatibility |-> groovyCompatibility,
   currentGoal |-> 0, currentTopic |-> FALSE,
   frameInfos |-> [k \in FrameKeys |-> Null],
   republisherUpdateRequested |-> FALSE, timers |-> 0, updates |-> 0]

\* One handler run of the TFClient: the client itself, the connection and
\* the ActionClient it owns.
TF == [tf |-> tfClient, ros |-> Cur, ac |-> AC, fault |-> FALSE,
       invoked |-> <<>>]

\* callback(transform), with what the call is observed by.
tfCall(t, key, callback) ==
  [t EXCEPT !.invoked = Append(@, [frame |-> key, cb |-> callback,
                                   transform |-> t.tf.frameInfos[key].transform])]

\* remove leading slash, if it's there
StripSlash(frameID) ==
  IF frameID # <<>> /\ frameID[1] = "/" THEN Tail(frameID) ELSE frameID

\* Object.keys(this.frameInfos)
Keys(frameInfos) == {k \in DOMAIN frameInfos : frameInfos[k] # Null}

\* TFClient.updateGoal, the callback of the update timer.  timers and updates
\* are bookkeeping and history: timers pending, requests issued.
updateGoal(t) ==
  LET goalMessage == [source_frames |-> Keys(t.tf.frameInfos),
                      target_frame |-> "/base_link"]
      cancelled == IF t.tf.currentGoal # 0
                   THEN goalCancel(t.ac, t.tf.currentGoal)
                   ELSE t.ac
      created == Goal(cancelled, goalMessage)
      sent == send(created, Len(created.goals), Undefined)
      done == [t EXCEPT !.tf.republisherUpdateRequested = FALSE,
                        !.tf.timers = @ - 1, !.tf.updates = @ + 1]
  IN  IF t.tf.groovyCompatibility
      THEN [done EXCEPT !.ac = sent, !.tf.currentGoal = Len(created.goals)]
      ELSE [done EXCEPT !.ros = callService(t.ros, TFService, goalMessage,
                                            "function", Undefined)]

tfSubscribeAlwaysSchedules(t, frameID, callback) ==
  LET key == StripSlash(frameID)
      t1 == IF t.tf.frameInfos[key] = Null
            THEN [t EXCEPT !.tf.frameInfos[key] = [cbs |-> <<>>,
                                                   transform |-> Undefined],
                           !.tf.timers = @ + 1,
                           !.tf.republisherUpdateRequested = TRUE]
            ELSE t
  IN  [t1 EXCEPT !.tf.frameInfos[key].cbs = Append(@, callback)]

\* TFClient.subscribe(frameID, callback)
tfSubscribe(t, frameID, callback) ==
  LET key == StripSlash(frameID)
      entered == [t EXCEPT !.tf.frameInfos[key] = [cbs |-> <<>>,
                                                   transform |-> Undefined]]
      t1 == IF t.tf.frameInfos[key] = Null
            THEN IF ~t.tf.republisherUpdateRequested
                 THEN [entered EXCEPT !.tf.timers = @ + 1,
                                      !.tf.republisherUpdateRequested = TRUE]
                 ELSE entered
            ELSE IF Truthy(t.tf.frameInfos[key].transform)
                 THEN tfCall(t, key, callback)
                 ELSE t
  IN  [t1 EXCEPT !.tf.frameInfos[key].cbs = Append(@, callback)]

tfUnsubscribeReaggregates(t, frameID, callback) ==
  LET key == StripSlash(frameID)
  IN  [t EXCEPT !.tf.frameInfos[key] = Null, !.tf.timers = @ + 1,
                !.tf.republisherUpdateRequested = TRUE]

\* TFClient.unsubscribe(frameID, callback).  cbs is declared by the let of
\* the for statement, so the test after the loop reads a name that is not
\* defined there: with a callback given, the call ends in a ReferenceError
\* after the loop and before the delete.
tfUnsubscribe(t, frameID, callback) ==
  LET key == StripSlash(frameID)
      info == t.tf.frameInfos[key]
      t1 == IF info # Null
            THEN [t EXCEPT !.tf.frameInfos[key].cbs =
                             SelectSeq(@, LAMBDA cb : cb # callback)]
            ELSE t
  IN  IF ~Truthy(callback)
      THEN [t1 EXCEPT !.tf.frameInfos[key] = Null]
      ELSE [t1 EXCEPT !.fault = TRUE]

\* The batched updates the republisher sends, and what the application's
\* callbacks do when called: nothing more, or one of them (actor)
\* unsubscribes a callback (target) of the frame, catching what unsubscribe
\* throws or not.
TFTransforms == {"T1", "T2"}
TFArrays ==
  {<<[child_frame_id |-> <<"a">>, transform |-> "T1"]>>,
   <<[child_frame_id |-> <<"/", "a">>, transform |-> "T2"]>>,
   <<[child_frame_id |-> <<"b">>, transform |-> "T1"],
     [child_frame_id |-> <<"a">>, transform |-> "T2"]>>}
Manners ==
  {[actor |-> "nobody", target |-> "nobody", catches |-> FALSE],
   [actor |-> "f", target |-> "f", catches |-> FALSE]}
  \cup [actor : TFCallbacks, target : {"f"}, catches : {TRUE}]
  \cup [actor : {"f"}, target : {"g"}, catches : {TRUE}]

\* info.cbs.forEach((cb) => { cb(info.transform); }): forEach visits the
\* indices below the length the array had at the start and reads the array
\* as it is at each visit; an exception leaves the loop.
RECURSIVE forEachCb(_, _, _, _, _)
forEachCb(t, key, k, len, manner) ==
  LET cbs == t.tf.frameInfos[key].cbs
  IN  IF k > len \/ t.fault THEN t
      ELSE IF k > Len(cbs) THEN forEachCb(t, key, k + 1, len, manner)
      ELSE
        LET called == tfCall(t, key, cbs[k])
            ran == IF cbs[k] = manner.actor
                   THEN tfUnsubscribe(called, key, manner.target)
                   ELSE called
            returned == IF manner.catches THEN [ran EXCEPT !.fault = FALSE]
                        ELSE ran
        IN  forEachCb(returned, key, k + 1, len, manner)

\* TFClient.processTFArray(tf): tf.transforms.forEach(...)
RECURSIVE processTFArray(_, _, _)
processTFArray(t, transforms, manner) ==
  IF transforms = <<>> \/ t.fault THEN t
  ELSE
    LET transform == Head(transforms)
        key == StripSlash(transform.child_frame_id)
        info == IF key \in DOMAIN t.tf.frameInfos THEN t.tf.frameInfos[key]
                ELSE Null
        stored == [t EXCEPT !.tf.frameInfos[key].transform = transform.transform]
    IN  processTFArray(IF info # Null
                       THEN forEachCb(stored, key, 1, Len(info.cbs), manner)
                       ELSE t,
                       Tail(transforms), manner)

\* A feedback frame of the republisher's action: the ActionClient hands it
\* to the goal it names, whose 'feedback' listeners are the Goal's own and
\* the processTFArray that updateGoal registered on it.
tfFeedback(t, feedbackMessage, manner) ==
  LET dispatched == feedbackListener(t.ac, feedbackMessage)
      t1 == [t EXCEPT !.ac = dispatched, !.fault = dispatched.fault]
  IN  IF Lookup(t.ac, feedbackMessage.status.goal_id.id) = "goal"
      THEN processTFArray(t1, feedbackMessage.feedback.transforms, manner)
      ELSE t1

Callbacks == {Undefined, "function"}

\* Values a transportLibrary option can have: strings, a number, and objects
\* with the name of their constructor ("none": an object that has no
\* constructor property).
Str(value) == [type |-> "string", value |-> value]
Obj(constructorName) == [type |-> "object", constructorName |-> constructorName]
TransportLibraries ==
  {Str("socket.io"), Str("websocket"), Str("workersocket"), Str("bogus"),
   Obj("RTCPeerConnection"), Obj("Object"), Obj("none"),
   [type |-> "number", value |-> "5"]}
RosOptions ==
  [url : {Undefined, "ws://localhost:9090"},
   transportLibrary : TransportLibraries \cup {[type |-> "undefined"], Str("")}]
NoFault == "none"

\* transportLibrary.toString()
toString(library) ==
  IF library.type = "object" THEN "[object Object]" ELSE library.value

connectViaFallsBack(s, url) ==
  [ros |-> [s EXCEPT !.socket = "CONNECTING"], fault |-> NoFault]

\* Ros.connect(url) for every value of this.transportLibrary: what it leaves
\* and what it throws.  Every transport but 'websocket' gets a new socket on
\* each call.
connectVia(s, url) ==
  LET library == s.transportLibrary
      created == [ros |-> [s EXCEPT !.socket = "CONNECTING"], fault |-> NoFault]
  IN  CASE library = Str("socket.io") -> created
        [] library.type = "object" /\ library.constructorName = "none" ->
             [ros |-> s, fault |-> "TypeError"]
        [] library.type = "object"
           /\ library.constructorName = "RTCPeerConnection" -> created
        [] library = Str("websocket") ->
             [ros |-> IF s.socket = "null" \/ s.socket = "CLOSED"
                      THEN [s EXCEPT !.socket = "CONNECTING"]
                      ELSE s,
              fault |-> NoFault]
        [] library = Str("workersocket") -> created
        [] OTHER ->
             [ros |-> s,
              fault |-> "Unknown transportLibrary: " \o toString(library)]

\* new Ros(options).  fresh is the state of an object on which no method has
\* run; a constructor that throws leaves no object.
Ros(fresh, options) ==
  LET falsy == options.transportLibrary.type = "undefined"
               \/ options.transportLibrary = Str("")
      made == [fresh EXCEPT !.transportLibrary =
                 IF falsy THEN Str("websocket")
                 ELSE options.transportLibrary]
  IN  IF Truthy(options.url) THEN connectVia(made, options.url)
      ELSE [ros |-> made, fault |-> NoFault]

\* ---- Ros.decodeTypeDefs ----
\* Type names are sequences of characters and name parts; a dictionary is a
\* set of <<key, value>> pairs; a value says what it is: a type name or a
\* dictionary, bare or wrapped in a one-element list.
Int32 == <<"int32">>
TypeB == <<"pkg", "/", "B">>
TypeC == <<"pkg", "/", "C">>
Primitive(fieldType, isArray) ==
  [kind |-> "primitive", array |-> isArray, type |-> fieldType, fields |-> {}]
Message(dict, isArray) ==
  [kind |-> "message", array |-> isArray, type |-> <<>>, fields |-> dict]

\* fieldType.indexOf('/') === -1
NoSlash(fieldType) == \A i \in 1..Len(fieldType) : fieldType[i] # "/"

\* typeDefDict[fieldName] = value
Put(typeDefDict, fieldName, value) ==
  {q \in typeDefDict : q[1] # fieldName} \cup {<<fieldName, value>>}

\* the first hint whose type is fieldType; Null stands for sub = false
FindHint(hints, fieldType) ==
  LET found == {j \in 1..Len(hints) : hints[j].type = fieldType}
  IN  IF found = {} THEN Null
      ELSE hints[CHOOSE j \in found : \A k \in found : j <= k]

\* decodeTypeDefsRec(theType, hints): the loop over the fields from field i
\* on, with the dictionary built so far.  A nested field that is no array is
\* decoded and then not stored (the branch at line 637 is empty); a type
\* that is not among the hints emits 'error' and stores nothing.
RECURSIVE decodeFields(_, _, _, _)
decodeFields(theType, hints, i, typeDefDict) ==
  IF i > Len(theType.fieldnames) THEN typeDefDict
  ELSE
    LET arrayLen == theType.fieldarraylen[i]
        fieldName == theType.fieldnames[i]
        fieldType == theType.fieldtypes[i]
        sub == FindHint(hints, fieldType)
        stored ==
          IF NoSlash(fieldType)
          THEN Put(typeDefDict, fieldName, Primitive(fieldType, arrayLen # -1))
          ELSE IF sub # Null /\ arrayLen # -1
               THEN Put(typeDefDict, fieldName,
                        Message(decodeFields(sub, hints, 1, {}), TRUE))
               ELSE typeDefDict
    IN  decodeFields(theType, hints, i + 1, stored)

decodeTypeDefsRec(theType, hints) == decodeFields(theType, hints, 1, {})

decodeTypeDefs(defs) == decodeTypeDefsRec(defs[1], defs)

\* The typedefs handed in: a first typedef of one to MaxFields fields, alone
\* or followed by the typedef of pkg/B.
FieldNames == <<"x", "y", "z", "w">>
TypeDef(typeName, fieldtypes, fieldarraylen) ==
  [type |-> typeName, fieldnames |-> SubSeq(FieldNames, 1, Len(fieldtypes)),
   fieldtypes |-> fieldtypes, fieldarraylen |-> fieldarraylen]
FirstTypeDefs ==
  UNION {{TypeDef(<<"pkg", "/", "A">>, types, lens) :
            types \in [1..n -> {Int32, TypeB, TypeC}],
            lens \in [1..n -> {-1, 0}]} : n \in 1..MaxFields}
Hints ==
  {<<>>, <<TypeDef(TypeB, <<Int32>>, <<-1>>)>>,
   <<TypeDef(TypeB, <<Int32, TypeC>>, <<0, -1>>)>>}
Defs == {<<first>> \o hints : first \in FirstTypeDefs, hints \in Hints}

Constructed ==
  /\ transportLibrary = Str("websocket")
  /\ socket = "null"
  /\ isConnected = FALSE
  /\ idCounter = 0
  /\ listeners = <<>>
  /\ regs = 0
  /\ name = [svc \in Services \cup {TFService} |->
               IF svc = TFService THEN "/republish_tfs" ELSE ServiceName]
  /\ serviceType = [svc \in Services \cup {TFService} |->
                      CASE svc = 1 -> "srv/AddTwoInts"
                        [] svc = TFService -> "tf2_web_republisher/RepublishTFs"
                        [] OTHER -> Undefined]
  /\ isAdvertised = [svc \in Services \cup {TFService} |-> FALSE]
  /\ serviceCallback = [svc \in Services \cup {TFService} |-> "null"]
  /\ wire = <<>>
  /\ callLog = <<>>
  /\ deliveries = <<>>
  /\ handlerLog = <<>>
  /\ opens = 0
  /\ inbox = <<>>
  /\ last = NoLast
  /\ subscribers = <<>>
  /\ subscribeId = "null"
  /\ subscribed = 0
  /\ currentGoal = Null
  /\ nextGoal = Null
  /\ statusMessage = [header |-> [stamp |-> [secs |-> 0, nsecs |-> 100]],
                      status_list |-> <<>>]

\* The timestamps isEarlier is asked about: secs and nsecs at the ends of
\* their ranges, so that the larger secs can come with the smaller nsecs.
TimeStamps == [secs : {0, 1}, nsecs : {0, 1, 999999999}]
NoProbe == [t |-> <<>>, earlier |-> <<>>]

Init ==
  /\ Constructed
  /\ probe = NoProbe
  /\ actionClient = ActionClient(DefaultOptions)
  /\ tfClient = TFClient(TRUE)

InitTF ==
  /\ Constructed
  /\ probe = NoProbe
  /\ actionClient = ActionClient(TFOptions)
  /\ \E groovyCompatibility \in BOOLEAN :
       tfClient = TFClient(groovyCompatibility)

InitFanOut ==
  /\ Constructed
  /\ probe = NoProbe
  /\ actionClient = ActionClient(TFOptions)
  /\ tfClient = TFClient(TRUE)

InitAction ==
  /\ Constructed
  /\ probe = NoProbe
  /\ \E options \in Options : actionClient = ActionClient(options)
  /\ tfClient = TFClient(TRUE)

InitDecode ==
  /\ Constructed
  /\ probe \in [defs : Defs, decoded : {Null}]
  /\ actionClient = ActionClient(DefaultOptions)
  /\ tfClient = TFClient(TRUE)

InitOrder ==
  /\ Constructed
  /\ probe \in [t : [1..3 -> TimeStamps], earlier : {<<>>}]
  /\ actionClient = ActionClient(DefaultOptions)
  /\ tfClient = TFClient(TRUE)

\* Faulty variant of connect: the new socket starts with no pending service
\* call listeners.
connectForgetsPendingCalls(s) ==
  IF s.socket = "null" \/ s.socket = "CLOSED"
  THEN [s EXCEPT !.socket = "CONNECTING",
                 !.listeners = SelectSeq(@, LAMBDA l : l.fn.type # "serviceCall")]
  ELSE s

\* Ros.connect with the 'websocket' transport: a socket is created only if
\* there is none or the previous one is CLOSED.
connect(s) ==
  IF s.socket = "null" \/ s.socket = "CLOSED"
  THEN [s EXCEPT !.socket = "CONNECTING"]
  ELSE s

\* Ros.close: socket.close() starts the closing handshake; the transport
\* signals onclose later.
close(s) ==
  IF s.socket # "null"
  THEN [s EXCEPT !.socket = IF @ \in {"CONNECTING", "OPEN"} THEN "CLOSING" ELSE @]
  ELSE s

Connect == Commit(connect(Cur), NoLast)

Close == Commit(close(Cur), NoLast)

ApplicationListeners(s) ==
  Len(SelectSeq(s.listeners, LAMBDA l : l.fn.type = "application"))

TransportOpen ==
  /\ socket = "CONNECTING"
  /\ opens < MaxOpens
  /\ Len(callLog) + ApplicationListeners(Cur) <= MaxCalls
  /\ Commit(onopen([Cur EXCEPT !.socket = "OPEN"]), NoLast)

TransportClose ==
  /\ socket \in {"CONNECTING", "OPEN", "CLOSING"}
  /\ Commit(onclose([Cur EXCEPT !.socket = "CLOSED"]), NoLast)

\* The application constructs a Ros, which replaces the one it had unless the
\* constructor throws, and calls connect on the one it has.
ConnectCall(op, arg, fault) ==
  [op |-> op, svc |-> 0, advertised |-> FALSE, pre |-> <<>>, arg |-> arg,
   fault |-> fault]

NewRos ==
  \E options \in RosOptions :
    LET fresh == [Cur EXCEPT !.socket = "null", !.idCounter = 0,
                             !.isConnected = FALSE, !.listeners = <<>>]
        made == Ros(fresh, options)
    IN  Commit(IF made.fault = NoFault THEN made.ros ELSE Cur,
               ConnectCall("Ros", options, made.fault))

ConnectVia ==
  LET connected == connectVia(Cur, "ws://localhost:9090")
  IN  Commit(connected.ros, ConnectCall("connect", Undefined, connected.fault))

TransportError ==
  /\ socket \in {"CONNECTING", "OPEN", "CLOSING"}
  /\ Commit(onerror(Cur), NoLast)

\* One caller with a success callback, and the server's successful answers.
PendingCall ==
  /\ idCounter < MaxServiceCalls
  /\ Commit(callService(Cur, 1, Request, "function", Undefined), NoLast)

PendingResponse ==
  /\ socket \in {"OPEN", "CLOSING"}
  /\ Len(inbox) < MaxFrames
  /\ \E id \in {callId(ServiceName, c) : c \in 1..idCounter} :
       Commit(onmessage(Cur, [op |-> "service_response", id |-> id,
                              values |-> {<<"sum", "3">>}, result |-> JsTrue],
                        NoOutcome),
              NoLast)

\* Frames the server can send: a response to any call made so far, answered
\* already or not, and a request for the name whether or not it is advertised.
InboundResponse ==
  /\ socket \in {"OPEN", "CLOSING"}
  /\ Len(inbox) < MaxFrames
  /\ \E id \in {callId(ServiceName, c) : c \in 1..idCounter},
        result \in {JsTrue, JsFalse, Undefined} :
       Commit(onmessage(Cur, [op |-> "service_response", id |-> id,
                              values |-> {<<"sum", "3">>}, result |-> result],
                        NoOutcome),
              NoLast)

InboundRequest ==
  /\ socket \in {"OPEN", "CLOSING"}
  /\ Len(inbox) < MaxFrames
  /\ \E id \in RequestIds, outcome \in Outcomes :
       /\ Len(callLog) + Len(listenersOf(Cur, ServiceName)) <= MaxCalls
       /\ Commit(onmessage(Cur, [op |-> "call_service", service |-> ServiceName,
                                 args |-> Request, id |-> id], outcome),
                 NoLast)

CallService ==
  /\ Len(callLog) < MaxCalls
  /\ idCounter < MaxServiceCalls
  /\ \E svc \in Services, callback \in Callbacks, failedCallback \in Callbacks :
       Commit(callService(Cur, svc, Request, callback, failedCallback),
              ServiceCall("callService", svc))

Advertise ==
  /\ Len(callLog) < MaxCalls
  /\ \E svc \in Services, callback \in Callbacks :
       Commit(advertise(Cur, svc, callback), NoLast)

Unadvertise ==
  /\ Len(callLog) < MaxCalls
  /\ \E svc \in Services : Commit(unadvertise(Cur, svc), NoLast)

\* One Service instance advertised, unadvertised and advertised again, and
\* the requests the server sends for its name.
AdvertiseAgain ==
  /\ Len(listenersOf(Cur, ServiceName)) < MaxAdvertises
  /\ Commit(advertise(Cur, 1, "function"), NoLast)

UnadvertiseAgain ==
  /\ isAdvertised[1]
  /\ Commit(unadvertise(Cur, 1), NoLast)

RequestAgain ==
  /\ socket \in {"OPEN", "CLOSING"}
  /\ Len(inbox) < MaxFrames
  /\ \E id \in RequestIds, outcome \in Outcomes :
       Commit(onmessage(Cur, [op |-> "call_service", service |-> ServiceName,
                              args |-> Request, id |-> id], outcome),
              NoLast)

SetStatusLevel ==
  /\ Len(callLog) < MaxCalls
  /\ Commit(setStatusLevel(Cur, "info", Undefined), NoLast)

\* The application registers a 'connection' listener that sets the status
\* level as soon as the connection is up.
OnConnection ==
  /\ ApplicationListeners(Cur) < MaxAppListeners
  /\ Commit(on(Cur, "connection", [type |-> "application"]), NoLast)

TopicCall(op, callback) ==
  [op |-> op, svc |-> 0, advertised |-> FALSE, callback |-> callback,
   pre |-> [subscribers |-> subscribers, callLog |-> Len(callLog)]]

Subscribe ==
  /\ Len(callLog) < MaxCalls
  /\ subscribed < MaxSubscribers
  /\ \E callback \in TopicCallbacks :
       Commit(subscribe(Cur, callback), TopicCall("subscribe", callback))

Unsubscribe ==
  /\ Len(callLog) < MaxCalls
  /\ \E callback \in TopicCallbacks \cup {Undefined} :
       Commit(unsubscribe(Cur, callback), TopicCall("unsubscribe", callback))

ServerStep(s, op, arg) ==
  [op |-> op, svc |-> 0, advertised |-> FALSE, arg |-> arg,
   pre |-> [currentGoal |-> currentGoal, nextGoal |-> nextGoal,
            status_list |-> statusMessage.status_list],
   events |-> s.events, published |-> s.published, fault |-> s.fault]

CommitServer(s, op, arg) ==
  /\ currentGoal' = s.currentGoal
  /\ nextGoal' = s.nextGoal
  /\ statusMessage' = s.statusMessage
  /\ last' = ServerStep(s, op, arg)
  /\ UNCHANGED <<rosVars, topicVars, probe, actionClient, tfClient>>

InboundGoal ==
  \E goalMessage \in GoalMessages :
    CommitServer(goalListener(Srv, goalMessage), "goal", goalMessage)

InboundCancel ==
  \E cancelMessage \in CancelMessages :
    CommitServer(cancelListener(Srv, cancelMessage), "cancel", cancelMessage)

StatusTick ==
  \E currentTime \in Clock :
    CommitServer(statusInterval(Srv, currentTime), "statusInterval", currentTime)

SetSucceeded == CommitServer(setSucceeded(Srv, Result), "setSucceeded", Result)

SetAborted == CommitServer(setAborted(Srv, Result), "setAborted", Result)

SetPreempted == CommitServer(setPreempted(Srv), "setPreempted", Undefined)

SendFeedback == CommitServer(sendFeedback(Srv, Result), "sendFeedback", Result)

CommitClient(s, op, arg) ==
  /\ actionClient' = [f \in DOMAIN actionClient |-> s[f]]
  /\ last' = [op |-> op, svc |-> 0, advertised |-> FALSE, arg |-> arg,
              pre |-> <<>>, events |-> s.events,
              published |-> s.published, fault |-> s.fault]
  /\ UNCHANGED <<rosVars, topicVars, serverVars, probe, tfClient>>

GoalStatus(id, code) == [goal_id |-> [id |-> id], status |-> code]
StatusLists ==
  {<<>>, <<GoalStatus("goal_x", 1)>>, <<GoalStatus(goalID(1), 1)>>,
   <<GoalStatus("goal_x", 1), GoalStatus(goalID(2), 3)>>}

RECURSIVE PendingTimers(_)
PendingTimers(goals) ==
  IF goals = <<>> THEN 0 ELSE goals[1].timers + PendingTimers(Tail(goals))

NewGoal ==
  /\ Len(actionClient.goals) < MaxGoals
  /\ CommitClient(Goal(AC, {<<"order", "5">>}), "Goal", Undefined)

Send ==
  \E n \in 1..Len(actionClient.goals), timeout \in {Undefined, "100"} :
    /\ Truthy(timeout) => PendingTimers(actionClient.goals) < MaxGoalTimers
    /\ CommitClient(send(AC, n, timeout), "send", [goal |-> n, timeout |-> timeout])

GoalTimeout ==
  \E n \in 1..Len(actionClient.goals) :
    /\ actionClient.goals[n].timers > 0
    /\ CommitClient(goalTimeout(AC, n), "goalTimeout", [goal |-> n])

GoalCancel ==
  \E n \in 1..Len(actionClient.goals) :
    CommitClient(goalCancel(AC, n), "goalCancel", [goal |-> n])

ClientCancel == CommitClient(clientCancel(AC), "cancel", Undefined)

Dispose == CommitClient(dispose(AC), "dispose", Undefined)

ClientTimeout ==
  /\ actionClient.timer = "armed"
  /\ CommitClient(clientTimeout(AC), "clientTimeout", Undefined)

InboundStatus ==
  /\ actionClient.subscribed.status
  /\ \E list \in StatusLists :
       CommitClient(statusListener(AC, [status_list |-> list]), "status",
                    [status_list |-> list])

InboundFeedback ==
  /\ actionClient.subscribed.feedback
  /\ \E id \in FrameIds :
       LET message == [status |-> GoalStatus(id, 1),
                       feedback |-> {<<"sequence", "1">>}]
       IN  CommitClient(feedbackListener(AC, message), "feedback", message)

InboundResult ==
  /\ actionClient.subscribed.result
  /\ \E id \in FrameIds :
       LET message == [status |-> GoalStatus(id, 3), result |-> Result]
       IN  CommitClient(resultListener(AC, message), "result", message)

CommitTF(t, op, arg) ==
  /\ tfClient' = t.tf
  /\ actionClient' = [f \in DOMAIN actionClient |-> t.ac[f]]
  /\ Assign(t.ros, [op |-> op, svc |-> 0, advertised |-> FALSE,
                    arg |-> arg, pre |-> <<>>, published |-> t.ac.published,
                    fault |-> t.fault, invoked |-> t.invoked])
  /\ UNCHANGED <<serverVars, probe>>

\* A callback is subscribed to a frame it is not yet subscribed to.
TFSubscribe ==
  \E frameID \in FrameIDs, callback \in TFCallbacks :
    /\ LET info == tfClient.frameInfos[StripSlash(frameID)]
       IN  info # Null => \A i \in 1..Len(info.cbs) : info.cbs[i] # callback
    /\ CommitTF(tfSubscribe(TF, frameID, callback), "tfSubscribe", <<>>)

TFUnsubscribe ==
  \E frameID \in FrameIDs, callback \in TFCallbacks \cup {Undefined} :
    CommitTF(tfUnsubscribe(TF, frameID, callback), "tfUnsubscribe", <<>>)

\* The update delay has passed.
UpdateGoal ==
  /\ tfClient.timers > 0
  /\ tfClient.updates < MaxUpdates
  /\ CommitTF(updateGoal(TF), "updateGoal", <<>>)

\* The republisher sends feedback for a goal, current or not.
TFFeedback ==
  /\ actionClient.subscribed.feedback
  /\ \E id \in {goalID(n) : n \in 1..Len(actionClient.goals)} \cup {"goal_x"},
        transforms \in TFArrays, manner \in Manners :
       LET feedbackMessage == [status |-> GoalStatus(id, 1),
                               feedback |-> [transforms |-> transforms]]
       IN  CommitTF(tfFeedback(TF, feedbackMessage, manner), "feedback",
                    [id |-> id, transforms |-> transforms])

\* decodeTypeDefs applied to the typedefs.
Decode ==
  /\ probe.decoded = Null
  /\ probe' = [probe EXCEPT !.decoded = [dict |-> decodeTypeDefs(probe.defs)]]
  /\ UNCHANGED <<rosVars, last, topicVars, serverVars, actionClient, tfClient>>

\* isEarlier applied to every pair of the three timestamps.
Compare ==
  /\ probe.earlier = <<>>
  /\ probe' = [probe EXCEPT
                 !.earlier = [i \in 1..3 |->
                                [j \in 1..3 |-> isEarlier(probe.t[i], probe.t[j])]]]
  /\ UNCHANGED <<rosVars, last, topicVars, serverVars, actionClient, tfClient>>

\* The connection manager on its own: the application connects, closes and
\* submits operations, the transport opens and closes.
Next ==
  \/ Connect
  \/ Close
  \/ TransportOpen
  \/ TransportClose
  \/ SetStatusLevel
  \/ OnConnection

Spec == Init /\ [][Next]_vars

\* The caller side of the request/response channel on a connection that is
\* being established: two Service instances call, the server answers.
NextCaller ==
  \/ Connect
  \/ TransportOpen
  \/ CallService
  \/ InboundResponse

SpecCaller == Init /\ [][NextCaller]_vars

\* Pending calls on a connection that is closed, fails and is opened again.
NextPending ==
  \/ Connect
  \/ Close
  \/ TransportOpen
  \/ TransportClose
  \/ TransportError
  \/ PendingCall
  \/ PendingResponse

SpecPending == Init /\ [][NextPending]_vars

\* Construction and connection with every kind of transportLibrary.
NextConnect ==
  \/ NewRos
  \/ ConnectVia
  \/ Close
  \/ TransportOpen
  \/ TransportClose

SpecConnect == Init /\ [][NextConnect]_vars

\* The handler side: the instances are advertised and unadvertised, the
\* server sends requests.
NextHandler ==
  \/ Connect
  \/ TransportOpen
  \/ CallService
  \/ Advertise
  \/ Unadvertise
  \/ InboundRequest

SpecHandler == Init /\ [][NextHandler]_vars

\* One instance that is advertised more than once.
NextReadvertise ==
  \/ Connect
  \/ TransportOpen
  \/ AdvertiseAgain
  \/ UnadvertiseAgain
  \/ RequestAgain

SpecReadvertise == Init /\ [][NextReadvertise]_vars

\* One topic: the application subscribes and unsubscribes callbacks while the
\* connection is being established.
NextTopic ==
  \/ Connect
  \/ TransportOpen
  \/ Subscribe
  \/ Unsubscribe

SpecTopic == Init /\ [][NextTopic]_vars

\* The action server: goal and cancel frames arrive, the status timer fires,
\* the handling code ends goals and sends feedback.
NextServer ==
  \/ InboundGoal
  \/ InboundCancel
  \/ StatusTick
  \/ SetSucceeded
  \/ SetAborted
  \/ SetPreempted
  \/ SendFeedback

SpecServer == Init /\ [][NextServer]_vars

\* The action client: the application creates, sends and cancels goals and
\* disposes of the client, the server's frames arrive, the timers expire.
NextAction ==
  \/ NewGoal
  \/ Send
  \/ GoalTimeout
  \/ GoalCancel
  \/ ClientCancel
  \/ Dispose
  \/ ClientTimeout
  \/ InboundStatus
  \/ InboundFeedback
  \/ InboundResult

SpecAction == InitAction /\ [][NextAction]_vars

\* The transform client: the application subscribes and unsubscribes frame
\* callbacks, the update timer expires.
NextTF ==
  \/ TFSubscribe
  \/ TFUnsubscribe
  \/ UpdateGoal

SpecTF == InitTF /\ [][NextTF]_vars

\* The fan-out in action mode: callbacks are subscribed, the upstream goal
\* is renewed and the republisher sends feedback.
NextFanOut ==
  \/ TFSubscribe
  \/ UpdateGoal
  \/ TFFeedback

SpecFanOut == InitFanOut /\ [][NextFanOut]_vars

\* decodeTypeDefs on its own.
NextDecode == Decode

SpecDecode == InitDecode /\ [][NextDecode]_vars

\* The timestamp order on its own.
NextOrder == Compare

SpecOrder == InitOrder /\ [][NextOrder]_vars


\* ---- the connection manager's queue ----
Queued(serial) == callLog[serial].queued
TimesSent(serial) == Cardinality({i \in 1..Len(wire) : wire[i].serial = serial})
QueuedOnWire == SelectSeq(wire, LAMBDA w : Queued(w.serial))

\* C1: the operations submitted while not connected reach the transport, at
\* the next 'connection' event, in the order of their callOnConnection calls.
C1_QueuedOperationsFlushInCallOrder ==
  /\ \A i, j \in 1..Len(QueuedOnWire) :
       i < j => QueuedOnWire[i].serial < QueuedOnWire[j].serial
  /\ \A k \in 1..Len(callLog) :
       (Queued(k) /\ callLog[k].epoch < opens) => TimesSent(k) >= 1

C1_Witness ==
  \E i, j \in 1..Len(wire) :
    /\ i < j
    /\ Queued(wire[i].serial) /\ Queued(wire[j].serial)
    /\ wire[i].epoch = wire[j].epoch

\* C2: a frame is handed to the transport only while isConnected is true, and
\* an operation submitted while not connected is held until a later
\* 'connection' event.
C2_SendsOnlyWhileConnected ==
  \A i \in 1..Len(wire) :
    /\ wire[i].isConnected
    /\ Queued(wire[i].serial) => wire[i].epoch > callLog[wire[i].serial].epoch

C2_Witness ==
  /\ \E i \in 1..Len(wire) : Queued(wire[i].serial)
  /\ \E i \in 1..Len(wire) : ~Queued(wire[i].serial)
  /\ \E k \in 1..Len(callLog) : Queued(k) /\ TimesSent(k) = 0

\* C3: an operation queued while not connected is handed to the transport
\* exactly once, at the first 'connection' event after it was queued, and not
\* again at any later one.
C3_QueuedOperationsFlushExactlyOnce ==
  \A k \in 1..Len(callLog) :
    Queued(k) =>
      /\ TimesSent(k) = (IF callLog[k].epoch < opens THEN 1 ELSE 0)
      /\ \A i \in 1..Len(wire) :
           wire[i].serial = k => wire[i].epoch = callLog[k].epoch + 1

C3_Witness ==
  \E k \in 1..Len(callLog) :
    Queued(k) /\ TimesSent(k) = 1 /\ opens >= callLog[k].epoch + 2

\* C4: over the queued and the immediate path together, the order of the
\* frames on the wire is the order of the callOnConnection calls.
C4_WireOrderIsCallOrder ==
  \A i, j \in 1..Len(wire) : i < j => wire[i].serial < wire[j].serial


\* ---- the request/response channel, caller side ----
\* C5: with both callbacks given, a response with result false invokes only
\* the failure callback and one with result true only the success callback;
\* with result false and no failure callback, nothing is invoked.
C5_ResultSelectsTheCallback ==
  \A i \in 1..Len(deliveries) :
    LET d == deliveries[i]
        both == d.callback = "function" /\ d.failedCallback = "function"
    IN /\ (both /\ d.result = JsFalse) => d.fired = {"failedCallback"}
       /\ (both /\ d.result = JsTrue) => d.fired = {"callback"}
       /\ (d.result = JsFalse /\ d.failedCallback # "function") => d.fired = {}

C5_Witness ==
  /\ \E i \in 1..Len(deliveries) :
       /\ deliveries[i].result = JsFalse
       /\ deliveries[i].failedCallback # "function"
       /\ deliveries[i].callback = "function"
  /\ \E i \in 1..Len(deliveries) :
       /\ deliveries[i].result = JsFalse
       /\ deliveries[i].failedCallback = "function"
       /\ deliveries[i].callback = "function"

ResponsesWith(id) ==
  {i \in 1..Len(inbox) : inbox[i].op = "service_response" /\ inbox[i].id = id}

\* C6: the listener of one callService fires at most once, whatever
\* responses arrive: the first response with its id removes it, and later
\* responses with that id reach nothing.
C6_CallbacksFireAtMostOnce ==
  /\ \A i, j \in 1..Len(deliveries) :
       deliveries[i].lid = deliveries[j].lid => i = j
  /\ \A i \in 1..Len(deliveries), k \in 1..Len(listeners) :
       listeners[k].lid # deliveries[i].lid

C6_Witness ==
  \E i \in 1..Len(deliveries) :
    /\ deliveries[i].fired # {}
    /\ Cardinality(ResponsesWith(deliveries[i].callId)) >= 2

ServiceCalls == SelectSeq(callLog, LAMBDA c : c.json.op = "call_service")

\* C7: every callService that goes through takes a correlation id no earlier
\* call on the connection took, whichever Service instance makes it: the
\* counter advances by one per call, and a response is delivered only to the
\* callbacks of the call whose id it carries.
C7_CorrelationIdsAreFresh ==
  /\ Len(ServiceCalls) = idCounter
  /\ \A i \in 1..Len(ServiceCalls) :
       ServiceCalls[i].json.id = callId(ServiceCalls[i].json.service, i)
  /\ \A i, j \in 1..Len(ServiceCalls) :
       ServiceCalls[i].json.id = ServiceCalls[j].json.id => i = j
  /\ \A i \in 1..Len(deliveries) :
       deliveries[i].msgId = deliveries[i].callId

C7_Witness ==
  /\ \E i, j \in 1..Len(ServiceCalls) :
       /\ "type" \in DOMAIN ServiceCalls[i].json
       /\ "type" \notin DOMAIN ServiceCalls[j].json
  /\ \E i \in 1..Len(deliveries) :
       /\ deliveries[i].fired # {}
       /\ deliveries[i].callId = ServiceCalls[2].json.id

\* ---- the request/response channel, handler side ----
\* C8: callService on an advertised instance sends nothing, registers no
\* listener, invokes no callback and leaves the id counter as it was.
C8_CallServiceIsNoOpWhileAdvertised ==
  (last.op = "callService" /\ last.advertised) => Snapshot(Cur) = last.pre

C8_Witness ==
  /\ last.op = "callService"
  /\ last.advertised
  /\ idCounter >= 1

\* C9: once an instance is unadvertised, requests for its name no longer
\* reach its handler and produce no service_response.
C9_UnadvertisedHandlerIsNotCalled ==
  \A i \in 1..Len(handlerLog) : handlerLog[i].advertised

\* C10: the service_response for a routed request carries the handler's
\* return value as result, what the handler wrote as values, the service's
\* name, and the request's id exactly when the request carried one.
C10_ResponseEchoesHandlerAndId ==
  \A i \in 1..Len(handlerLog) :
    LET h == handlerLog[i]
        json == callLog[h.serial].json
    IN /\ json.op = "service_response"
       /\ json.result = h.success
       /\ json.values = h.written
       /\ json.service = name[h.svc]
       /\ ("id" \in DOMAIN json) <=> (h.reqId # Undefined)
       /\ ("id" \in DOMAIN json) => json.id = h.reqId

\* ---- the topic's reference count ----
WireOps(op) ==
  Len(SelectSeq(callLog, LAMBDA c : c.json.op = op /\ c.json.topic = TopicName))

\* C11: for one topic name, the 'subscribe' operations outnumber the
\* 'unsubscribe' operations by one while callbacks are registered and by none
\* otherwise, so N subscribes followed by N unsubscribes make exactly one of
\* each; and an 'unsubscribe' is sent only by the call that removes the last
\* registered callback.
C11_OneSubscribeAndOneUnsubscribePerName ==
  /\ WireOps("subscribe") - WireOps("unsubscribe")
       = IF subscribers = <<>> THEN 0 ELSE 1
  /\ (last.op = "unsubscribe" /\ Len(callLog) > last.pre.callLog)
       => /\ last.pre.subscribers # <<>>
          /\ subscribers = <<>>
          /\ callLog[Len(callLog)].json.op = "unsubscribe"
  /\ (last.op = "unsubscribe" /\ Len(callLog) = last.pre.callLog)
       => (subscribers # <<>> \/ last.pre.subscribers = <<>>)

C11_Witness ==
  /\ last.op = "unsubscribe"
  /\ last.callback # Undefined
  /\ Len(last.pre.subscribers) = 1
  /\ subscribed >= 2
  /\ subscribers = <<>>
  /\ WireOps("subscribe") = 1
  /\ WireOps("unsubscribe") = 1

\* ---- the action server's goal slots ----
GoalEvent(goalMessage) == [type |-> "goal", arg |-> goalMessage.goal]
CancelEvent == [type |-> "cancel", arg |-> Undefined]
TerminalOps == {"setSucceeded", "setAborted", "setPreempted"}
StatusIds == {statusMessage.status_list[i].goal_id.id :
                i \in 1..Len(statusMessage.status_list)}

\* C12: when setSucceeded ends a current goal A while a goal B is staged,
\* exactly one 'goal' event is raised, for B; B is the current goal, no goal
\* is staged, and the status list holds exactly B's id.
C12_SucceedingPromotesTheStagedGoal ==
  (/\ last.op = "setSucceeded"
   /\ last.pre.currentGoal # Null
   /\ last.pre.nextGoal # Null)
  => /\ last.events = <<GoalEvent(last.pre.nextGoal)>>
     /\ currentGoal = last.pre.nextGoal
     /\ nextGoal = Null
     /\ Len(statusMessage.status_list) = 1
     /\ StatusIds = {last.pre.nextGoal.goal_id.id}

\* C13: a goal frame that finds no current goal becomes the current goal, the
\* status list becomes that goal with status 1, and one 'goal' event and no
\* 'cancel' event is raised; a goal frame that finds a current goal is staged
\* as nextGoal, leaves currentGoal and the status list as they were, and
\* raises one 'cancel' event and no 'goal' event.
C13_GoalFrameIsAcceptedOrStaged ==
  last.op = "goal"
  => IF last.pre.currentGoal = Null
     THEN /\ currentGoal = last.arg
          /\ statusMessage.status_list
               = <<[goal_id |-> last.arg.goal_id, status |-> 1]>>
          /\ nextGoal = last.pre.nextGoal
          /\ last.events = <<GoalEvent(last.arg)>>
     ELSE /\ nextGoal = last.arg
          /\ currentGoal = last.pre.currentGoal
          /\ statusMessage.status_list = last.pre.status_list
          /\ last.events = <<CancelEvent>>

C13_Witness ==
  /\ last.op = "goal"
  /\ last.pre.currentGoal # Null
  /\ last.pre.nextGoal # Null
  /\ last.pre.nextGoal # last.arg
  /\ last.pre.status_list # <<>>

\* C14: a goal is staged in nextGoal only while there is a current goal.
C14_StagedGoalImpliesCurrentGoal == nextGoal # Null => currentGoal # Null

C14_Witness ==
  /\ last.op \in TerminalOps
  /\ last.pre.nextGoal # Null
  /\ currentGoal = last.pre.nextGoal
  /\ nextGoal = Null

StatusCode(op) ==
  CASE op = "setSucceeded" -> 3
    [] op = "setAborted" -> 4
    [] op = "setPreempted" -> 2

\* C15: a terminal operation called with a current goal publishes exactly one
\* result message, carrying that goal's id and the operation's status code
\* (3, 4, 2), empties the status list, and then either makes the staged goal
\* current with exactly one 'goal' event for it, or goes idle with no event.
C15_TerminalOperationEndsTheCurrentGoal ==
  (last.op \in TerminalOps /\ last.pre.currentGoal # Null)
  => /\ ~last.fault
     /\ Len(last.published) = 1
     /\ last.published[1].topic = "result"
     /\ last.published[1].msg.status.goal_id = last.pre.currentGoal.goal_id
     /\ last.published[1].msg.status.status = StatusCode(last.op)
     /\ statusMessage.status_list = <<>>
     /\ nextGoal = Null
     /\ IF last.pre.nextGoal # Null
        THEN /\ currentGoal = last.pre.nextGoal
             /\ last.events = <<GoalEvent(last.pre.nextGoal)>>
        ELSE /\ currentGoal = Null
             /\ last.events = <<>>

C15_Witness ==
  /\ last.op = "setPreempted"
  /\ last.pre.currentGoal # Null
  /\ last.pre.nextGoal # Null
  /\ last.pre.nextGoal.goal_id.id # last.pre.currentGoal.goal_id.id
  /\ last.pre.status_list # <<>>

\* C16: the status list published at a tick of the status timer holds an
\* entry for the current goal's id when there is a current goal, and is empty
\* when the server is idle.
C16_HeartbeatReportsTheCurrentGoal ==
  last.op = "statusInterval"
  => LET list == last.published[1].msg.status_list
     IN  IF currentGoal # Null
         THEN \E i \in 1..Len(list) : list[i].goal_id.id = currentGoal.goal_id.id
         ELSE list = <<>>

\* ---- cancel frames ----
Nanos(t) == t.secs * 1000000000 + t.nsecs
Before(t1, t2) == Nanos(t1) < Nanos(t2)
CancelAll(cancelMessage) ==
  /\ cancelMessage.id = ""
  /\ cancelMessage.stamp.secs = 0
  /\ cancelMessage.stamp.nsecs = 0
Names(goal, cancelMessage) ==
  goal # Null /\ cancelMessage.id = goal.goal_id.id
Held(pre) == {pre.currentGoal, pre.nextGoal} \ {Null}

\* C17: a cancel frame with id "" and stamp {0, 0} raises exactly one
\* 'cancel' event if there is a current goal and none if the server is idle;
\* afterwards nextGoal is empty and currentGoal is what it was.
C17_CancelAllClearsTheStagedGoal ==
  (last.op = "cancel" /\ CancelAll(last.arg))
  => /\ last.events = IF last.pre.currentGoal # Null THEN <<CancelEvent>> ELSE <<>>
     /\ nextGoal = Null
     /\ currentGoal = last.pre.currentGoal

C17_Witness ==
  /\ last.op = "cancel"
  /\ CancelAll(last.arg)
  /\ last.pre.nextGoal # Null
  /\ last.events = <<CancelEvent>>

\* C18: a cancel frame with an empty id, secs = 0 and nsecs > 0 is not a
\* cancel-all: it leaves alone a staged goal whose creation timestamp is
\* later than the frame's.
C18_CancelAllNeedsBothStampFieldsZero ==
  (/\ last.op = "cancel"
   /\ last.arg.id = ""
   /\ last.arg.stamp.secs = 0
   /\ last.arg.stamp.nsecs > 0
   /\ last.pre.nextGoal # Null
   /\ Before(last.arg.stamp, last.pre.nextGoal.goal_id.stamp))
  => nextGoal = last.pre.nextGoal

C20_EqualTimestampsResolveById ==
  (/\ last.op = "cancel"
   /\ ~CancelAll(last.arg)
   /\ \A goal \in Held(last.pre) : goal.goal_id.stamp = last.arg.stamp)
  => /\ currentGoal = last.pre.currentGoal
     /\ IF Names(last.pre.currentGoal, last.arg)
        THEN nextGoal = last.pre.nextGoal /\ last.events = <<CancelEvent>>
        ELSE IF Names(last.pre.nextGoal, last.arg)
             THEN nextGoal = Null /\ last.events = <<>>
             ELSE nextGoal = last.pre.nextGoal /\ last.events = <<>>

\* ---- the timestamp order ----
\* C21: isEarlier(t1, t2) is true exactly when secs1*1e9 + nsecs1 is less
\* than secs2*1e9 + nsecs2; so it is irreflexive and transitive, and of two
\* distinct timestamps exactly one is earlier than the other.
C21_IsEarlierIsTheOrderOfNanoseconds ==
  probe.earlier # <<>>
  => \A i, j, k \in 1..3 :
       /\ probe.earlier[i][j] = (Nanos(probe.t[i]) < Nanos(probe.t[j]))
       /\ ~probe.earlier[i][i]
       /\ (probe.earlier[i][j] /\ probe.earlier[j][k]) => probe.earlier[i][k]
       /\ probe.t[i] # probe.t[j]
            => (probe.earlier[i][j] # probe.earlier[j][i])

C21_Witness ==
  /\ probe.earlier # <<>>
  /\ probe.t[1].secs < probe.t[2].secs
  /\ probe.t[1].nsecs > probe.t[2].nsecs
  /\ probe.t[2].secs = probe.t[3].secs
  /\ probe.t[2].nsecs < probe.t[3].nsecs
  /\ probe.earlier[1][2] /\ probe.earlier[2][3] /\ probe.earlier[1][3]

\* ---- the action client's dispatch ----
Goals == actionClient.goals
OnGoal(n, type, arg) == [goal |-> n, type |-> type, arg |-> arg]
EventsOn(n) == SelectSeq(last.events, LAMBDA e : e.goal = n)
FrameOps == {"status", "feedback", "result"}

\* C22: a status-array frame raises, for every entry whose goal id is in the
\* registry, one 'status' event on that goal carrying the entry, so that the
\* goal's stored status is the entry; entries with other ids raise nothing,
\* and the frame ends without a fault.
C22_StatusFrameReachesTheRegisteredGoals ==
  last.op = "status"
  => LET list == last.arg.status_list
     IN  /\ ~last.fault
         /\ \A i \in 1..Len(list) :
              \A n \in GoalIndex(actionClient, list[i].goal_id.id) :
                /\ EventsOn(n) = <<OnGoal(n, "status", list[i])>>
                /\ Goals[n].status = list[i]
         /\ \A j \in 1..Len(last.events) :
              \E i \in 1..Len(list) :
                last.events[j].goal \in GoalIndex(actionClient, list[i].goal_id.id)

\* C23: a feedback or result frame whose goal id is in the registry raises on
\* that goal a 'status' event with the frame's status and then the
\* 'feedback' or 'result' event, and nothing on any other goal; a frame whose
\* id is not in the registry raises no event.
C23_StatusComesBeforeFeedbackAndResult ==
  last.op \in {"feedback", "result"}
  => LET matching == GoalIndex(actionClient, last.arg.status.goal_id.id)
     IN  IF matching # {}
         THEN \E n \in matching :
                last.events = <<OnGoal(n, "status", last.arg.status),
                                OnGoal(n, last.op, last.arg[last.op])>>
         ELSE last.events = <<>>

C23_Witness ==
  /\ last.op = "result"
  /\ Len(Goals) = 2
  /\ last.arg.status.goal_id.id = Goals[2].goalID
  /\ Len(last.events) = 2
  /\ Goals[2].status = last.arg.status
  /\ Goals[1].status = Undefined

\* C24: once a goal is finished, no later status, feedback or result frame
\* changes its stored status, feedback or result or raises an event on it.
C24_FinishedGoalIsLeftAlone ==
  [][\A n \in 1..Len(Goals) :
       (Goals[n].isFinished /\ last'.op \in FrameOps)
       => /\ Goals'[n].status = Goals[n].status
          /\ Goals'[n].feedback = Goals[n].feedback
          /\ Goals'[n].result = Goals[n].result
          /\ \A j \in 1..Len(last'.events) : last'.events[j].goal # n]_vars

\* C25: a Goal is created with isFinished false; isFinished becomes true only
\* in the step that dispatches a result frame with this goal's id to it; and
\* no step of any kind sets it back to false.
C25_IsFinishedOnlyByResultAndForGood ==
  [][\A n \in 1..Len(Goals') :
       IF n > Len(Goals)
       THEN ~Goals'[n].isFinished
       ELSE /\ Goals[n].isFinished => Goals'[n].isFinished
            /\ (~Goals[n].isFinished /\ Goals'[n].isFinished)
                 => /\ last'.op = "result"
                    /\ last'.arg.status.goal_id.id = Goals[n].goalID]_vars

C25_Witness ==
  /\ last.op \in {"goalTimeout", "dispose", "feedback"}
  /\ Len(Goals) = 2
  /\ Goals[1].isFinished
  /\ ~Goals[2].isFinished
  /\ ~actionClient.subscribed.result

\* C26: when the client's timeout timer expires, the client-level 'timeout'
\* event is raised if no status frame has arrived and not raised if one has;
\* no other step raises it, so it is raised at most once; and the expiry
\* changes no goal and raises no goal-level event.
C26_ClientTimeoutOnlyWithoutStatus ==
  [][/\ last'.op = "clientTimeout"
        => /\ last'.events = IF actionClient.statusFrames = 0
                             THEN <<OnGoal(0, "timeout", Undefined)>>
                             ELSE <<>>
           /\ Goals' = Goals
     /\ last'.op # "clientTimeout"
        => actionClient'.timeouts = actionClient.timeouts
     /\ actionClient'.timeouts <= 1]_vars

C26_Witness ==
  /\ last.op = "clientTimeout"
  /\ last.events = <<>>
  /\ actionClient.statusFrames = 1
  /\ Len(Goals) >= 1

\* C27: when the timer of Goal.send(timeout) expires, the goal's 'timeout'
\* event is raised if and only if no result has been delivered to the goal;
\* the expiry does not finish the goal, does not remove it from the registry
\* and publishes nothing.
C27_GoalTimeoutOnlyWhileUnfinished ==
  [][last'.op = "goalTimeout"
     => LET n == last'.arg.goal
        IN  /\ last'.events = IF Goals[n].resulted
                              THEN <<>>
                              ELSE <<OnGoal(n, "timeout", Undefined)>>
            /\ last'.published = <<>>
            /\ Len(Goals') = Len(Goals)
            /\ Goals'[n].goalID = Goals[n].goalID
            /\ Goals'[n].isFinished = Goals[n].isFinished]_vars

C27_Witness ==
  /\ last.op = "goalTimeout"
  /\ last.events = <<>>
  /\ Goals[last.arg.goal].resulted

\* The frames named by the upstream requests of one step: the goal messages
\* published to the republisher and the calls made to its service.
GoalFrames(stepPublished) ==
  LET goals == SelectSeq(stepPublished, LAMBDA m : m.topic = "goal")
  IN  [i \in 1..Len(goals) |-> goals[i].msg.goal.source_frames]
CallFrames(logBefore, logAfter) ==
  [i \in 1..(Len(logAfter) - Len(logBefore)) |->
     logAfter[Len(logBefore) + i].json.args.source_frames]
Watched == Keys(tfClient.frameInfos)

\* C28: subscriptions to unwatched frames made while an update is pending
\* fold into it: there is never more than one update timer, a subscription
\* that creates a frame entry leaves one pending, each expiry of the timer
\* issues exactly one upstream request naming every frame that has an entry
\* then, and no other step issues a request.
C28_OneRequestPerWindowNamingEveryFrame ==
  [][LET issued == GoalFrames(last'.published) \o CallFrames(callLog, callLog')
     IN  /\ issued = IF tfClient'.updates # tfClient.updates
                     THEN <<Watched>>
                     ELSE <<>>
         /\ tfClient'.timers <= 1
         /\ Watched' \ Watched # {} => tfClient'.timers = 1]_vars

C28_Witness ==
  /\ tfClient.updates = 2
  /\ Len(Goals) = 2
  /\ Cardinality(Goals[1].goalMessage.goal.source_frames) = 2
  /\ Goals[2].goalMessage.goal.source_frames = FrameKeys
  /\ last.op = "updateGoal"

\* C29: a frame entry exists exactly when at least one callback is
\* registered for the frame (callbacks are held in the entry, so this is:
\* no entry has an empty callback list).
C29_EntryExistsIffCallbackRegistered ==
  \A k \in FrameKeys :
    tfClient.frameInfos[k] # Null => Len(tfClient.frameInfos[k].cbs) >= 1

\* C30: TFClient.unsubscribe leaves the pending-update flag, the update
\* timer, the current goal and the current topic as they were, and sends
\* nothing: no goal or cancel message, no service call, no frame.
C30_UnsubscribeNeverReaggregates ==
  [][last'.op = "tfUnsubscribe"
     => /\ tfClient'.republisherUpdateRequested
             = tfClient.republisherUpdateRequested
        /\ tfClient'.timers = tfClient.timers
        /\ tfClient'.updates = tfClient.updates
        /\ tfClient'.currentGoal = tfClient.currentGoal
        /\ tfClient'.currentTopic = tfClient.currentTopic
        /\ last'.published = <<>>
        /\ actionClient' = actionClient
        /\ callLog' = callLog
        /\ wire' = wire
        /\ listeners' = listeners]_vars

C30_Witness ==
  /\ last.op = "tfUnsubscribe"
  /\ tfClient.republisherUpdateRequested
  /\ tfClient.timers = 1
  /\ \E k \in FrameKeys :
       /\ tfClient.frameInfos[k] # Null
       /\ tfClient.frameInfos[k].cbs = <<>>

\* The one-shot listeners of the service calls made so far.
PendingCalls(ls) == SelectSeq(ls, LAMBDA l : l.fn.type = "serviceCall")
Arrived(before, after) ==
  IF Len(after) = Len(before) + 1 THEN {after[Len(after)]} ELSE {}

\* C31: the listener of a pending service call is removed only by a response
\* frame carrying the call's id, which is delivered to it whether or not the
\* connection was closed and opened again in between; connect, close, the
\* transport's close and error signals and other frames leave it registered.
C31_PendingCallListenerStaysUntilItsResponse ==
  [][\A i \in 1..Len(PendingCalls(listeners)) :
       LET l == PendingCalls(listeners)[i]
           answered == \E m \in Arrived(inbox, inbox') :
                         m.op = "service_response" /\ m.id = l.fn.id
           kept == \E j \in 1..Len(listeners') : listeners'[j] = l
           delivered == \E d \in Arrived(deliveries, deliveries') :
                          d.lid = l.lid /\ d.msgId = l.fn.id
       IN  IF answered THEN ~kept /\ delivered ELSE kept /\ ~delivered]_vars

C31_Witness ==
  /\ opens = 2
  /\ \E i \in 1..Len(deliveries), k \in 1..Len(callLog) :
       /\ deliveries[i].epoch = 2
       /\ "callback" \in deliveries[i].fired
       /\ callLog[k].json.op = "call_service"
       /\ callLog[k].json.id = deliveries[i].callId
       /\ callLog[k].epoch = 1

Recognised(library) ==
  library \in {Str("socket.io"), Str("websocket"), Str("workersocket"),
               Obj("RTCPeerConnection")}

\* C32: connect() throws exactly when transportLibrary is none of
\* 'socket.io', 'websocket', 'workersocket' and no RTCPeerConnection, and
\* then leaves socket and isConnected as they were; the constructor throws
\* the same when it is given a url and such a transportLibrary, and no
\* object is made.
C32_UnknownTransportLibraryIsASynchronousFault ==
  [][/\ last'.op = "connect"
        => IF Recognised(transportLibrary)
           THEN last'.fault = NoFault
           ELSE /\ last'.fault # NoFault
                /\ socket' = socket
                /\ isConnected' = isConnected
     /\ last'.op = "Ros"
        => LET library == last'.arg.transportLibrary
               given == library.type # "undefined" /\ library # Str("")
           IN  IF Truthy(last'.arg.url) /\ given /\ ~Recognised(library)
               THEN /\ last'.fault
                         = connectVia([Cur EXCEPT !.transportLibrary = library],
                                      last'.arg.url).fault
                    /\ last'.fault # NoFault
                    /\ UNCHANGED rosVars
               ELSE /\ last'.fault = NoFault
                    /\ transportLibrary'
                         = IF given THEN library ELSE Str("websocket")]_vars

C32_Witness ==
  /\ last.op = "connect"
  /\ last.fault = "Unknown transportLibrary: bogus"
  /\ transportLibrary = Str("bogus")
  /\ socket = "null"
  /\ opens = 1

\* C33: the decoded dictionary has, for every field of the first typedef, a
\* key with the field's name: a primitive field maps to its type name, a
\* field whose type is among the hints maps to the decoded dictionary of
\* that type, each wrapped in a list exactly when the field is an array.
C33_EveryResolvableFieldIsDecoded ==
  probe.decoded # Null =>
    LET first == probe.defs[1]
    IN  \A i \in 1..Len(first.fieldnames) :
          LET fieldType == first.fieldtypes[i]
              isArray == first.fieldarraylen[i] # -1
              sub == FindHint(probe.defs, fieldType)
          IN  /\ NoSlash(fieldType)
                 => <<first.fieldnames[i], Primitive(fieldType, isArray)>>
                      \in probe.decoded.dict
              /\ (~NoSlash(fieldType) /\ sub # Null)
                 => <<first.fieldnames[i],
                      Message(decodeTypeDefsRec(sub, probe.defs), isArray)>>
                      \in probe.decoded.dict

\* C34: once close() has been called the connection counts as disconnected:
\* an operation submitted while the transport is still closing is queued
\* for the next connection and nothing is handed to the closing transport.
C34_OperationAfterCloseIsQueued ==
  [][(socket = "CLOSING" /\ Len(callLog') > Len(callLog))
     => /\ ~isConnected
        /\ callLog'[Len(callLog')].queued
        /\ wire' = wire]_vars

\* The calls a batched update owes: for each transform of a watched frame,
\* the callbacks registered for the frame, in order, with that transform.
RECURSIVE Owed(_, _)
Owed(transforms, frameInfos) ==
  IF transforms = <<>> THEN <<>>
  ELSE
    LET key == StripSlash(Head(transforms).child_frame_id)
        watched == key \in DOMAIN frameInfos /\ frameInfos[key] # Null
    IN  (IF watched
         THEN [i \in 1..Len(frameInfos[key].cbs) |->
                 [frame |-> key, cb |-> frameInfos[key].cbs[i],
                  transform |-> Head(transforms).transform]]
         ELSE <<>>)
        \o Owed(Tail(transforms), frameInfos)

\* C35: a batched update calls every callback that was registered for a
\* resolved frame when the update arrived exactly once, in registration
\* order and with the new transform, whatever the callbacks unsubscribe
\* while they run.
C35_FanOutReachesEveryRegisteredCallback ==
  [][(last'.op = "feedback" /\ Lookup(AC, last'.arg.id) = "goal")
     => last'.invoked = Owed(last'.arg.transforms, tfClient.frameInfos)]_vars

\* C40: feedback carrying the id of an upstream goal that has been
\* superseded updates no cached transform and calls no callback.
C40_SupersededGoalDrivesNoFanOut ==
  [][(/\ last'.op = "feedback"
      /\ Lookup(AC, last'.arg.id) = "goal"
      /\ tfClient.currentGoal \notin GoalIndex(AC, last'.arg.id))
     => /\ last'.invoked = <<>>
        /\ tfClient'.frameInfos = tfClient.frameInfos]_vars

\* C36: a request that arrives while a Service instance is advertised calls
\* the instance's handler exactly once and sends exactly one
\* service_response, however often the instance was advertised and
\* unadvertised before.
C36_AdvertisedHandlerRunsOncePerRequest ==
  [][\A m \in Arrived(inbox, inbox') :
       \A svc \in Services :
         (m.op = "call_service" /\ isAdvertised[svc])
         => /\ Cardinality({k \in (Len(handlerLog) + 1)..Len(handlerLog') :
                              handlerLog'[k].svc = svc}) = 1
            /\ Cardinality({k \in (Len(callLog) + 1)..Len(callLog') :
                              callLog'[k].json.op = "service_response"}) = 1]_vars

\* C37: one inbound cancel frame raises at most one 'cancel' event, also when
\* it names the current goal by id and is later than the goal's stamp.
C37_CancelFrameRaisesAtMostOneCancel ==
  last.op = "cancel"
  => Len(SelectSeq(last.events, LAMBDA e : e.type = "cancel")) <= 1

\* C38: a goal frame is held by the server until a result with its id is
\* published, so that the handler's terminal operations can get to it: a
\* goal staged as nextGoal is still held, or has had its result, after a
\* further goal frame has arrived.
C38_StagedGoalIsHeldUntilItsResult ==
  [][(last'.op = "goal" /\ nextGoal # Null)
     => \/ nextGoal.goal_id.id
             \in {g.goal_id.id : g \in {currentGoal', nextGoal'} \ {Null}}
        \/ \E k \in 1..Len(last'.published) :
             /\ last'.published[k].topic = "result"
             /\ last'.published[k].msg.status.goal_id.id
                  = nextGoal.goal_id.id]_vars

\* C39: setSucceeded, setAborted, setPreempted and sendFeedback called while
\* no goal is current do nothing: nothing is published, no event is raised,
\* no fault is raised, and currentGoal, nextGoal and the status list are what
\* they were.
C39_TerminalOperationWhileIdleIsANoOp ==
  (/\ last.op \in TerminalOps \cup {"sendFeedback"}
   /\ last.pre.currentGoal = Null)
  => /\ ~last.fault
     /\ last.published = <<>>
     /\ last.events = <<>>
     /\ currentGoal = last.pre.currentGoal
     /\ nextGoal = last.pre.nextGoal
     /\ statusMessage.status_list = last.pre.status_list
====
